---- MODULE Spec2Model ----
(***************************************************************************)
(* Ledger projections of the expense tracker (src/src/App.tsx):            *)
(* calculateRunway and calculateFutureNeeds, as the App component computes *)
(* them from its `transactions` state on every render, and the daily       *)
(* balance series of the BalanceGraph component.                           *)
(*                                                                         *)
(* A transaction's `date` is a calendar day ('YYYY-MM-DD' in the data      *)
(* store); the model writes it as a day number.  new Date(date).getTime()  *)
(* is that day's UTC midnight in milliseconds (getTime below).             *)
(***************************************************************************)
EXTENDS Integers, Sequences, FiniteSets

VARIABLES transactions, today, rendered, runway, futureNeeds,
          timeZone, activeTab, mounted, memo, calls, totals,
          partners, db, outcome

vars == <<transactions, today, rendered, runway, futureNeeds,
          timeZone, activeTab, mounted, memo, calls, totals,
          partners, db, outcome>>

\* the partners state of App, the data store, and the last handler that ran
storeVars == <<partners, db, outcome>>

----------------------------------------------------------------------------
(* Bounds of the model: rows of a ledger, days 1..MaxDate, amounts          *)
(* 1..MaxAmount in whole units, and the day the clock reads.               *)

MaxTx == 3
MaxDate == 2
MaxAmount == 1
Now == 1
\* rows of a ledger shown by the BalanceGraph
MaxRows == 2
\* renders of a component after its first
MaxCalls == 1
\* rows the data store ever inserts into its transactions table
MaxIds == 2

----------------------------------------------------------------------------
(* Values *)

\* the sentinels of the unbounded result, and the '' of currentDate
Infinity == 2147483647
FarFutureDate == 2932896
NoDate == 0

MsPerDay == 1000 * 60 * 60 * 24

Dates == 1..MaxDate
Amounts == 1..MaxAmount
PaymentTypes == {"White", "Black"}
\* the optional paymentType argument: "none" is the omitted argument
Filters == {"none"} \cup PaymentTypes

Transaction ==
  [type : {"credit", "debit"}, amount : Amounts, date : Dates,
   payment_type : PaymentTypes]

----------------------------------------------------------------------------
(* Helpers of the JavaScript runtime; Array.prototype.filter is SelectSeq *)

getTime(date) == date * MsPerDay

abs(x) == IF x < 0 THEN -x ELSE x

\* as ceilDiv, Math.floor for Math.ceil
ceilDiv_floor(a, b) == a \div b

\* Math.ceil(a / b) for b > 0
ceilDiv(a, b) == -((-a) \div b)

\* as insertByDate, an element placed before the elements of its own date
\* (< 0 for <= 0): a sort that is not stable
RECURSIVE insertByDate_unstable(_, _)
insertByDate_unstable(s, t) ==
  IF s = <<>> THEN <<t>>
  ELSE IF getTime(s[Len(s)].date) - getTime(t.date) < 0
       THEN Append(s, t)
       ELSE Append(insertByDate_unstable(SubSeq(s, 1, Len(s) - 1), t), s[Len(s)])

\* Array.prototype.sort with the comparator
\* (a, b) => new Date(a.date).getTime() - new Date(b.date).getTime():
\* ascending by date, stable.
RECURSIVE insertByDate(_, _)
insertByDate(s, t) ==
  IF s = <<>> THEN <<t>>
  ELSE IF getTime(s[Len(s)].date) - getTime(t.date) <= 0
       THEN Append(s, t)
       ELSE Append(insertByDate(SubSeq(s, 1, Len(s) - 1), t), s[Len(s)])

\* as sortByDate, with the comparator's operands exchanged: descending
RECURSIVE sortByDate_descending(_)
sortByDate_descending(s) ==
  IF s = <<>> THEN <<>>
  ELSE LET rest == sortByDate_descending(SubSeq(s, 1, Len(s) - 1))
           t == s[Len(s)]
           Later(u) == getTime(u.date) - getTime(t.date) >= 0
           Earlier(u) == getTime(u.date) - getTime(t.date) < 0
       IN  SelectSeq(rest, Later) \o <<t>> \o SelectSeq(rest, Earlier)

RECURSIVE sortByDate(_)
sortByDate(s) ==
  IF s = <<>> THEN <<>>
  ELSE insertByDate(sortByDate(SubSeq(s, 1, Len(s) - 1)), s[Len(s)])

\* t.type === 'credit' ? Number(t.amount) : -Number(t.amount)
signedAmount(t) == IF t.type = "credit" THEN t.amount ELSE -t.amount

\* reduce((sum, t) => sum + signedAmount(t), 0)
RECURSIVE sumSigned(_)
sumSigned(s) ==
  IF s = <<>> THEN 0
  ELSE sumSigned(SubSeq(s, 1, Len(s) - 1)) + signedAmount(s[Len(s)])

----------------------------------------------------------------------------
(* calculateRunway *)

\* as filterByPaymentType, the paymentType argument ignored
filterByPaymentType_unfiltered(txs, paymentType) == txs

filterByPaymentType(txs, paymentType) ==
  IF paymentType = "none" THEN txs
  ELSE LET Test(t) == t.payment_type = paymentType IN SelectSeq(txs, Test)

InfiniteRunway ==
  [days |-> Infinity, isRunwayExhausted |-> FALSE,
   lastSustainableDate |-> FarFutureDate, amountNeeded |-> 0, isInfinite |-> TRUE]

\* as runwayLoop, the runway exhausted by a debit that leaves the balance
\* at zero (<= for <)
RECURSIVE runwayLoop_atZero(_, _, _)
runwayLoop_atZero(sorted, i, runningBalance) ==
  IF i > Len(sorted)
  THEN [isRunwayExhausted |-> FALSE, lastSustainableDate |-> NoDate, amountNeeded |-> 0]
  ELSE IF sorted[i].type = "credit"
  THEN runwayLoop_atZero(sorted, i + 1, runningBalance + sorted[i].amount)
  ELSE LET balance == runningBalance - sorted[i].amount
       IN  IF balance <= 0
           THEN [isRunwayExhausted |-> TRUE, lastSustainableDate |-> sorted[i].date,
                 amountNeeded |-> abs(balance)]
           ELSE runwayLoop_atZero(sorted, i + 1, balance)

\* the for loop over sortedTransactions, from index i with runningBalance:
\* the day of the first debit that leaves the balance negative, or none
RECURSIVE runwayLoop(_, _, _)
runwayLoop(sorted, i, runningBalance) ==
  IF i > Len(sorted)
  THEN [isRunwayExhausted |-> FALSE, lastSustainableDate |-> NoDate, amountNeeded |-> 0]
  ELSE IF sorted[i].type = "credit"
  THEN runwayLoop(sorted, i + 1, runningBalance + sorted[i].amount)
  ELSE LET balance == runningBalance - sorted[i].amount
       IN  IF balance < 0
           THEN [isRunwayExhausted |-> TRUE, lastSustainableDate |-> sorted[i].date,
                 amountNeeded |-> abs(balance)]
           ELSE runwayLoop(sorted, i + 1, balance)

hasDebit(s) == \E i \in 1..Len(s) : s[i].type = "debit"

\* as calculateRunway, without the two returns of the infinite runway: a
\* ledger that is never exhausted gets the locals' initial values
calculateRunway_noInfinite(txs, paymentType, now) ==
  LET filteredTransactions == filterByPaymentType(txs, paymentType)
      sortedTransactions == sortByDate(filteredTransactions)
      loop == runwayLoop(sortedTransactions, 1, 0)
  IN  IF ~loop.isRunwayExhausted
      THEN [days |-> 0, isRunwayExhausted |-> FALSE,
            lastSustainableDate |-> now \div MsPerDay,
            amountNeeded |-> 0, isInfinite |-> FALSE]
      ELSE [days |-> ceilDiv(getTime(loop.lastSustainableDate) - now, MsPerDay),
            isRunwayExhausted |-> TRUE,
            lastSustainableDate |-> loop.lastSustainableDate,
            amountNeeded |-> loop.amountNeeded,
            isInfinite |-> FALSE]

\* as calculateRunway, runningBalance kept outside the function: the walk
\* starts from the shortfall the preceding call for the filter ended with
calculateRunway_carried(txs, paymentType, now) ==
  LET filteredTransactions == filterByPaymentType(txs, paymentType)
      sortedTransactions == sortByDate(filteredTransactions)
      carried == IF rendered THEN 0 - runway[paymentType].amountNeeded ELSE 0
  IN  IF Len(sortedTransactions) = 0 \/ ~hasDebit(sortedTransactions)
      THEN InfiniteRunway
      ELSE LET loop == runwayLoop(sortedTransactions, 1, carried)
           IN  IF ~loop.isRunwayExhausted
               THEN InfiniteRunway
               ELSE [days |-> ceilDiv(getTime(loop.lastSustainableDate) - now, MsPerDay),
                     isRunwayExhausted |-> TRUE,
                     lastSustainableDate |-> loop.lastSustainableDate,
                     amountNeeded |-> loop.amountNeeded,
                     isInfinite |-> FALSE]

calculateRunway(txs, paymentType, now) ==
  LET filteredTransactions == filterByPaymentType(txs, paymentType)
      sortedTransactions == sortByDate(filteredTransactions)
  IN  IF Len(sortedTransactions) = 0 \/ ~hasDebit(sortedTransactions)
      THEN InfiniteRunway
      ELSE LET loop == runwayLoop(sortedTransactions, 1, 0)
           IN  IF ~loop.isRunwayExhausted
               THEN InfiniteRunway
               ELSE [days |-> ceilDiv(getTime(loop.lastSustainableDate) - now, MsPerDay),
                     isRunwayExhausted |-> TRUE,
                     lastSustainableDate |-> loop.lastSustainableDate,
                     amountNeeded |-> loop.amountNeeded,
                     isInfinite |-> FALSE]

\* the sortedTransactions of calculateRunway: the ledger filtered by the
\* channel, then sorted by date
sortedTransactions(txs, paymentType) == sortByDate(filterByPaymentType(txs, paymentType))

----------------------------------------------------------------------------
(* calculateFutureNeeds *)

\* as forEachStep, the pending need pushed before every transaction, not
\* only when the date changes
forEachStep_perTransaction(acc, transaction) ==
  LET pushed ==
        IF acc.currentNeed < 0
        THEN Append(acc.fundingNeeds,
                    [date |-> acc.currentDate, amountNeeded |-> abs(acc.currentNeed)])
        ELSE acc.fundingNeeds
      balance == acc.runningBalance + signedAmount(transaction)
  IN  [runningBalance |-> balance,
       currentDate |-> transaction.date,
       currentNeed |-> IF transaction.type = "debit" /\ balance < 0 THEN balance ELSE 0,
       fundingNeeds |-> pushed]

\* as forEachStep, an entry pushed at every change of date, whether or not
\* a need is pending
forEachStep_everyDate(acc, transaction) ==
  LET pushed ==
        IF acc.currentDate # transaction.date
        THEN Append(acc.fundingNeeds,
                    [date |-> acc.currentDate, amountNeeded |-> abs(acc.currentNeed)])
        ELSE acc.fundingNeeds
      balance == acc.runningBalance + signedAmount(transaction)
  IN  [runningBalance |-> balance,
       currentDate |-> transaction.date,
       currentNeed |-> IF transaction.type = "debit" /\ balance < 0 THEN balance ELSE 0,
       fundingNeeds |-> pushed]

\* one step of futureTransactions.forEach; acc holds runningBalance,
\* currentDate, currentNeed and fundingNeeds
forEachStep(acc, transaction) ==
  LET pushed ==
        IF acc.currentDate # transaction.date /\ acc.currentNeed < 0
        THEN Append(acc.fundingNeeds,
                    [date |-> acc.currentDate, amountNeeded |-> abs(acc.currentNeed)])
        ELSE acc.fundingNeeds
      balance == acc.runningBalance + signedAmount(transaction)
  IN  [runningBalance |-> balance,
       currentDate |-> transaction.date,
       currentNeed |-> IF transaction.type = "debit" /\ balance < 0 THEN balance ELSE 0,
       fundingNeeds |-> pushed]

RECURSIVE forEachNeeds(_, _)
forEachNeeds(s, acc0) ==
  IF s = <<>> THEN acc0
  ELSE forEachStep(forEachNeeds(SubSeq(s, 1, Len(s) - 1), acc0), s[Len(s)])

\* the tail of calculateFutureNeeds: the forEach from runningBalance over
\* futureTransactions, and the push of the last date's need
needsFrom(runningBalance, futureTransactions) ==
  LET acc == forEachNeeds(futureTransactions,
               [runningBalance |-> runningBalance,
                currentDate |-> NoDate, currentNeed |-> 0, fundingNeeds |-> <<>>])
  IN  IF acc.currentNeed < 0
      THEN Append(acc.fundingNeeds,
                  [date |-> acc.currentDate, amountNeeded |-> abs(acc.currentNeed)])
      ELSE acc.fundingNeeds

\* as calculateFutureNeeds, futureTransactions left in the order of the
\* transactions state (the .sort of 245-247 omitted)
calculateFutureNeeds_unsorted(txs, paymentType, now) ==
  LET filteredTransactions == filterByPaymentType(txs, paymentType)
      rw == calculateRunway(txs, paymentType, now)
      lastSustainableDate == rw.lastSustainableDate
      After(t) == getTime(t.date) > getTime(lastSustainableDate)
      UpTo(t) == getTime(t.date) <= getTime(lastSustainableDate)
  IN  IF ~rw.isRunwayExhausted THEN <<>>
      ELSE needsFrom(sumSigned(SelectSeq(filteredTransactions, UpTo)),
                     SelectSeq(filteredTransactions, After))

\* as calculateFutureNeeds, the exhaustion date counted among the future
\* dates (>= for >, < for <=)
calculateFutureNeeds_inclusive(txs, paymentType, now) ==
  LET filteredTransactions == filterByPaymentType(txs, paymentType)
      rw == calculateRunway(txs, paymentType, now)
      lastSustainableDate == rw.lastSustainableDate
      After(t) == getTime(t.date) >= getTime(lastSustainableDate)
      UpTo(t) == getTime(t.date) < getTime(lastSustainableDate)
  IN  IF ~rw.isRunwayExhausted THEN <<>>
      ELSE needsFrom(sumSigned(SelectSeq(filteredTransactions, UpTo)),
                     sortByDate(SelectSeq(filteredTransactions, After)))

\* as calculateFutureNeeds, the walk resumed from the shortfall the runway
\* reports instead of the sum of the transactions up to the exhaustion date
calculateFutureNeeds_fromShortfall(txs, paymentType, now) ==
  LET filteredTransactions == filterByPaymentType(txs, paymentType)
      rw == calculateRunway(txs, paymentType, now)
      lastSustainableDate == rw.lastSustainableDate
      After(t) == getTime(t.date) > getTime(lastSustainableDate)
  IN  IF ~rw.isRunwayExhausted THEN <<>>
      ELSE needsFrom(0 - rw.amountNeeded,
                     sortByDate(SelectSeq(filteredTransactions, After)))

calculateFutureNeeds(txs, paymentType, now) ==
  LET filteredTransactions == filterByPaymentType(txs, paymentType)
      rw == calculateRunway(txs, paymentType, now)
      lastSustainableDate == rw.lastSustainableDate
      After(t) == getTime(t.date) > getTime(lastSustainableDate)
      UpTo(t) == getTime(t.date) <= getTime(lastSustainableDate)
  IN  IF ~rw.isRunwayExhausted THEN <<>>
      ELSE needsFrom(sumSigned(SelectSeq(filteredTransactions, UpTo)),
                     sortByDate(SelectSeq(filteredTransactions, After)))

----------------------------------------------------------------------------
(* BalanceGraph: the useMemo of the daily balances                         *)
(*                                                                         *)
(* The loop steps a Date with d.setDate(d.getDate() + 1), which moves the  *)
(* LOCAL calendar day and keeps the local time of day, and names the day   *)
(* with d.toISOString(), which is the UTC calendar day.  The time zone of  *)
(* the runtime is therefore part of the model: an offset from UTC before   *)
(* and after one transition instant.                                       *)

MsPerHour == 1000 * 60 * 60

\* a zone without transitions (India, UTC+5:30) and two zones that change
\* between UTC+1 and UTC+2 at 01:00 UTC of day MaxDate
IndiaStandardTime ==
  [before |-> 5 * MsPerHour + MsPerHour \div 2,
   after |-> 5 * MsPerHour + MsPerHour \div 2, at |-> 0]

SummerTimeBegins ==
  [before |-> MsPerHour, after |-> 2 * MsPerHour,
   at |-> getTime(MaxDate) + MsPerHour]

SummerTimeEnds ==
  [before |-> 2 * MsPerHour, after |-> MsPerHour,
   at |-> getTime(MaxDate) + MsPerHour]

TimeZones == {IndiaStandardTime, SummerTimeBegins, SummerTimeEnds}

\* the offset of local time at the instant t
LocalTZA(tz, t) == IF t < tz.at THEN tz.before ELSE tz.after

\* the instant of a local time value
UTC(tz, local) ==
  IF local - tz.before < tz.at THEN local - tz.before ELSE local - tz.after

\* d.setDate(d.getDate() + 1): the next local calendar day, same local time
setDateNextDay(tz, d) == UTC(tz, d + LocalTZA(tz, d) + MsPerDay)

\* d.toISOString().split('T')[0]: the UTC calendar day of the instant d
toISODate(d) == d \div MsPerDay

Tabs == {"all", "white", "black"}

toLowerCase(s) ==
  CASE s = "White" -> "white"
    [] s = "Black" -> "black"
    [] OTHER -> s

\* transactions.filter(...).sort(...) of the useMemo
graphTransactions(txs, tab) ==
  LET Test(t) == tab = "all" \/ toLowerCase(t.payment_type) = tab
  IN  sortByDate(SelectSeq(txs, Test))

\* Array.from(new Set(filteredTransactions.map(t => t.date)))
transactionDates(s) == {s[i].date : i \in DOMAIN s}

minOf(S) == CHOOSE x \in S : \A y \in S : x <= y
maxOf(S) == CHOOSE x \in S : \A y \in S : x >= y

\* dailyBalances[dateStr] = value
setKey(obj, key, value) ==
  [k \in DOMAIN obj \cup {key} |-> IF k = key THEN value ELSE obj[k]]

\* as dateLoop, the loop stopped before endDate (d < endDate)
RECURSIVE dateLoop_exclusive(_, _, _, _, _)
dateLoop_exclusive(tz, d, endDate, sorted, acc) ==
  IF ~(d < endDate) THEN acc
  ELSE LET dateStr == toISODate(d)
           OfDay(t) == t.date = dateStr
           dayTransactions == SelectSeq(sorted, OfDay)
           dayBalance == sumSigned(dayTransactions)
           balance == IF Len(dayTransactions) > 0
                      THEN acc.runningBalance + dayBalance
                      ELSE acc.runningBalance
       IN  dateLoop_exclusive(tz, setDateNextDay(tz, d), endDate, sorted,
                    [runningBalance |-> balance,
                     dailyBalances |->
                       setKey(acc.dailyBalances, dateStr,
                              [balance |-> balance,
                               hasTransaction |-> Len(dayTransactions) > 0]),
                     dateRange |-> Append(acc.dateRange, dateStr)])

\* the for loop from the instant d to endDate; acc holds runningBalance,
\* dailyBalances and dateRange
RECURSIVE dateLoop(_, _, _, _, _)
dateLoop(tz, d, endDate, sorted, acc) ==
  IF ~(d <= endDate) THEN acc
  ELSE LET dateStr == toISODate(d)
           OfDay(t) == t.date = dateStr
           dayTransactions == SelectSeq(sorted, OfDay)
           dayBalance == sumSigned(dayTransactions)
           balance == IF Len(dayTransactions) > 0
                      THEN acc.runningBalance + dayBalance
                      ELSE acc.runningBalance
       IN  dateLoop(tz, setDateNextDay(tz, d), endDate, sorted,
                    [runningBalance |-> balance,
                     dailyBalances |->
                       setKey(acc.dailyBalances, dateStr,
                              [balance |-> balance,
                               hasTransaction |-> Len(dayTransactions) > 0]),
                     dateRange |-> Append(acc.dateRange, dateStr)])

\* reduce((sum, t) => sum + Number(t.amount), 0)
RECURSIVE sumAmount(_)
sumAmount(s) ==
  IF s = <<>> THEN 0
  ELSE sumAmount(SubSeq(s, 1, Len(s) - 1)) + s[Len(s)].amount

\* the derived value totalBalance of App
totalBalance(txs) ==
  LET Credit(t) == t.type = "credit"
      Debit(t) == t.type = "debit"
      totalCredits == sumAmount(SelectSeq(txs, Credit))
      totalDebits == sumAmount(SelectSeq(txs, Debit))
  IN  totalCredits - totalDebits

\* as useMemo, the extrema taken over the balances alone, without the 0
useMemo_extremaOfPoints(txs, tab, tz) ==
  LET sorted == graphTransactions(txs, tab)
      acc0 == [runningBalance |-> 0, dailyBalances |-> <<>>, dateRange |-> <<>>]
      acc == IF transactionDates(sorted) = {} THEN acc0
             ELSE dateLoop(tz, getTime(minOf(transactionDates(sorted))),
                           getTime(maxOf(transactionDates(sorted))), sorted, acc0)
      balances == {acc.dailyBalances[k].balance : k \in DOMAIN acc.dailyBalances}
  IN  [dailyBalances |-> acc.dailyBalances,
       dates |-> acc.dateRange,
       maxBalance |-> IF balances = {} THEN 0 ELSE maxOf(balances),
       minBalance |-> IF balances = {} THEN 0 ELSE minOf(balances)]

\* the value of the useMemo for the transactions prop and the active tab
useMemo(txs, tab, tz) ==
  LET sorted == graphTransactions(txs, tab)
      acc0 == [runningBalance |-> 0, dailyBalances |-> <<>>, dateRange |-> <<>>]
      \* without a transaction both dates are Invalid Date and d <= endDate
      \* is false at once
      acc == IF transactionDates(sorted) = {} THEN acc0
             ELSE dateLoop(tz, getTime(minOf(transactionDates(sorted))),
                           getTime(maxOf(transactionDates(sorted))), sorted, acc0)
      balances == {acc.dailyBalances[k].balance : k \in DOMAIN acc.dailyBalances}
  IN  [dailyBalances |-> acc.dailyBalances,
       dates |-> acc.dateRange,
       maxBalance |-> maxOf(balances \cup {0}),
       minBalance |-> minOf(balances \cup {0})]

NotMounted == [dailyBalances |-> <<>>, dates |-> <<>>, maxBalance |-> 0, minBalance |-> 0]

----------------------------------------------------------------------------
(* The component: its transactions state and the render of the projections *)

\* const runway = calculateRunway(), calculateRunway('White'),
\* calculateRunway('Black') of the body of App
renderRunway(txs, now) == [f \in Filters |-> calculateRunway(txs, f, now)]

\* as renderFutureNeeds, every pool's card showing the funding needs of the
\* combined ledger
renderFutureNeeds_combined(txs, now) ==
  [f \in Filters |-> calculateFutureNeeds(txs, "none", now)]

\* const futureNeeds = calculateFutureNeeds(), calculateFutureNeeds('White'),
\* calculateFutureNeeds('Black') of the body of App
renderFutureNeeds(txs, now) == [f \in Filters |-> calculateFutureNeeds(txs, f, now)]

\* what runway and futureNeeds hold before the body of App has run
NotRendered == [f \in Filters |-> <<>>]

\* as calculateTotalPoolBalance, without the filter on payment_type
calculateTotalPoolBalance_unfiltered(txs, poolType) ==
  LET Credit(t) == t.type = "credit"
      Debit(t) == t.type = "debit"
      credits == sumAmount(SelectSeq(txs, Credit))
      debits == sumAmount(SelectSeq(txs, Debit))
  IN  [totalCredits |-> credits, totalDebits |-> debits, balance |-> credits - debits]

\* the totals of one pool
calculateTotalPoolBalance(txs, poolType) ==
  LET Pool(t) == t.payment_type = poolType
      Credit(t) == t.type = "credit"
      Debit(t) == t.type = "debit"
      poolTransactions == SelectSeq(txs, Pool)
      credits == sumAmount(SelectSeq(poolTransactions, Credit))
      debits == sumAmount(SelectSeq(poolTransactions, Debit))
  IN  [totalCredits |-> credits, totalDebits |-> debits, balance |-> credits - debits]

\* the derived values of App: the totals of the ledger and of the two pools
derivedValues(txs) ==
  LET Credit(t) == t.type = "credit"
      Debit(t) == t.type = "debit"
  IN  [totalCredits |-> sumAmount(SelectSeq(txs, Credit)),
       totalDebits |-> sumAmount(SelectSeq(txs, Debit)),
       totalBalance |-> totalBalance(txs),
       whiteTotals |-> calculateTotalPoolBalance(txs, "White"),
       blackTotals |-> calculateTotalPoolBalance(txs, "Black")]

\* what totals holds before the body of App has run
NoTotals == <<>>

\* as arrayAfterCall, the sort called on filteredTransactions itself, which
\* without a paymentType is the array of the state
arrayAfterCall_sortedInPlace(txs, paymentType) ==
  IF paymentType = "none" THEN sortByDate(txs) ELSE txs

\* the array of the transactions state after calculateRunway(paymentType)
\* or calculateFutureNeeds(paymentType): .filter returns a new array and
\* .sort is called on the copy [...filteredTransactions], so no call writes
\* to the array of the state
arrayAfterCall(txs, paymentType) == txs

\* the array after the calls of one run of the body of App
arrayAfterRender(txs) ==
  arrayAfterCall(arrayAfterCall(arrayAfterCall(txs, "none"), "White"), "Black")

\* the renders of App and of BalanceGraph after their first
NoCalls == [App |-> 0, BalanceGraph |-> 0]

\* the partners state ([] of useState), a data store without rows, and no
\* handler run yet
NoPartners == <<>>
EmptyStore == [transactions |-> <<>>, partners |-> <<>>, nextId |-> 1]
NoOutcome == [op |-> "none", ok |-> TRUE]

\* The transactions state is any ledger of at most MaxTx rows, in any order
\* (loadData stores the rows in the order the store returns them, handleSubmit
\* appends); the clock reads noon of day Now.
Init ==
  /\ \E n \in 0..MaxTx : transactions \in [1..n -> Transaction]
  /\ today = getTime(Now) + MsPerDay \div 2
  /\ rendered = FALSE
  /\ runway = NotRendered
  /\ futureNeeds = NotRendered
  /\ timeZone = IndiaStandardTime
  /\ activeTab = "all"
  /\ mounted = FALSE
  /\ memo = NotMounted
  /\ calls = NoCalls
  /\ totals = NoTotals
  /\ partners = NoPartners
  /\ db = EmptyStore
  /\ outcome = NoOutcome

\* The body of App runs: runway and futureNeeds of the combined ledger and of
\* each pool are computed from the transactions state and the clock.
Render ==
  /\ ~rendered
  /\ rendered' = TRUE
  /\ runway' = renderRunway(transactions, today)
  /\ futureNeeds' = renderFutureNeeds(transactions, today)
  /\ transactions' = arrayAfterRender(transactions)
  /\ totals' = derivedValues(transactions)
  /\ UNCHANGED <<today, timeZone, activeTab, mounted, memo, calls, storeVars>>

Next == Render

Spec == Init /\ [][Next]_vars

\* The same component over a longer calendar: the ledgers of one channel
\* whose dates span one day more, so that several dates can follow the
\* exhaustion date.
ScheduleTransaction ==
  [type : {"credit", "debit"}, amount : Amounts, date : 1..(MaxDate + 1),
   payment_type : {"White"}]

InitSchedule ==
  /\ \E n \in 0..MaxTx : transactions \in [1..n -> ScheduleTransaction]
  /\ today = getTime(Now) + MsPerDay \div 2
  /\ rendered = FALSE
  /\ runway = NotRendered
  /\ futureNeeds = NotRendered
  /\ timeZone = IndiaStandardTime
  /\ activeTab = "all"
  /\ mounted = FALSE
  /\ memo = NotMounted
  /\ calls = NoCalls
  /\ totals = NoTotals
  /\ partners = NoPartners
  /\ db = EmptyStore
  /\ outcome = NoOutcome

SpecSchedule == InitSchedule /\ [][Next]_vars

\* The same component at any time of a day: new Date() is an instant of
\* one of the days around the ledger's dates, at midnight UTC, a
\* millisecond later, at noon, or a millisecond before the next midnight.
ClockTimes == {0, 1, MsPerDay \div 2, MsPerDay - 1}

InitClock ==
  /\ \E n \in 0..MaxRows : transactions \in [1..n -> ScheduleTransaction]
  /\ \E day \in 1..(MaxDate + 1), time \in ClockTimes : today = getTime(day) + time
  /\ rendered = FALSE
  /\ runway = NotRendered
  /\ futureNeeds = NotRendered
  /\ timeZone = IndiaStandardTime
  /\ activeTab = "all"
  /\ mounted = FALSE
  /\ memo = NotMounted
  /\ calls = NoCalls
  /\ totals = NoTotals
  /\ partners = NoPartners
  /\ db = EmptyStore
  /\ outcome = NoOutcome

SpecClock == InitClock /\ [][Next]_vars

----------------------------------------------------------------------------
(* The BalanceGraph component: its transactions prop, its activeTab state  *)
(* and the memoised series, in a runtime of some time zone.                *)

\* the rows the graph is given: any channel, dates spanning MaxDate + 2 days
GraphTransaction ==
  [type : {"credit", "debit"}, amount : Amounts, date : 1..(MaxDate + 2),
   payment_type : PaymentTypes]

InitGraph ==
  /\ \E n \in 0..MaxRows : transactions \in [1..n -> GraphTransaction]
  /\ today = getTime(Now) + MsPerDay \div 2
  /\ rendered = FALSE
  /\ runway = NotRendered
  /\ futureNeeds = NotRendered
  /\ timeZone \in TimeZones
  /\ activeTab = "all"
  /\ mounted = FALSE
  /\ memo = NotMounted
  /\ calls = NoCalls
  /\ totals = NoTotals
  /\ partners = NoPartners
  /\ db = EmptyStore
  /\ outcome = NoOutcome

\* the first render of the component
BalanceGraph ==
  /\ ~mounted
  /\ mounted' = TRUE
  /\ memo' = useMemo(transactions, activeTab, timeZone)
  /\ UNCHANGED <<transactions, today, rendered, runway, futureNeeds,
                 timeZone, activeTab, calls, storeVars, totals>>

\* a click on a tab: the state changes and the component renders again
setActiveTab(tab) ==
  /\ mounted
  /\ tab # activeTab
  /\ activeTab' = tab
  /\ memo' = useMemo(transactions, tab, timeZone)
  /\ UNCHANGED <<transactions, today, rendered, runway, futureNeeds,
                 timeZone, mounted, calls, storeVars, totals>>

NextGraph ==
  \/ BalanceGraph
  \/ \E tab \in Tabs : setActiveTab(tab)

SpecGraph == InitGraph /\ [][NextGraph]_vars

----------------------------------------------------------------------------
(* Repeated renders: the body of App and the BalanceGraph run again on the *)
(* same ledger, as React does after any state update.                      *)

\* the transactions of the repeated renders: both types and channels, every
\* date, one amount
CallsTransaction ==
  [type : {"credit", "debit"}, amount : {MaxAmount}, date : Dates,
   payment_type : PaymentTypes]

InitCalls ==
  /\ \E n \in 0..MaxRows : transactions \in [1..n -> CallsTransaction]
  /\ today = getTime(Now) + MsPerDay \div 2
  /\ rendered = FALSE
  /\ runway = NotRendered
  /\ futureNeeds = NotRendered
  /\ timeZone = IndiaStandardTime
  /\ activeTab = "all"
  /\ mounted = FALSE
  /\ memo = NotMounted
  /\ calls = NoCalls
  /\ totals = NoTotals
  /\ partners = NoPartners
  /\ db = EmptyStore
  /\ outcome = NoOutcome

\* the body of App runs again
Rerender ==
  /\ rendered
  /\ calls.App < MaxCalls
  /\ calls' = [calls EXCEPT !.App = @ + 1]
  /\ runway' = renderRunway(transactions, today)
  /\ futureNeeds' = renderFutureNeeds(transactions, today)
  /\ transactions' = arrayAfterRender(transactions)
  /\ totals' = derivedValues(transactions)
  /\ UNCHANGED <<today, rendered, timeZone, activeTab, mounted, memo, storeVars>>

\* the BalanceGraph renders again with the same tab and the useMemo is
\* computed anew
BalanceGraphAgain ==
  /\ mounted
  /\ calls.BalanceGraph < MaxCalls
  /\ calls' = [calls EXCEPT !.BalanceGraph = @ + 1]
  /\ memo' = useMemo(transactions, activeTab, timeZone)
  /\ UNCHANGED <<transactions, today, rendered, runway, futureNeeds,
                 timeZone, activeTab, mounted, storeVars, totals>>

NextCalls ==
  \/ Render
  \/ Rerender
  \/ BalanceGraph
  \/ BalanceGraphAgain
  \/ \E tab \in Tabs : setActiveTab(tab)

SpecCalls == InitCalls /\ [][NextCalls]_vars

----------------------------------------------------------------------------
(* The handlers of App and the data store.  A handler runs as a whole; a   *)
(* request to the store succeeds or fails.  A partner is written by its    *)
(* id; the store numbers the transactions it inserts.  Of the fields a     *)
(* form sets, the handlers below vary type, amount and partner; the date   *)
(* is the form's default and the channel the form's 'White'.               *)

PartnerIds == {"A", "B"}

\* partner_id of a debit; '' is the partner select without a choice
null == "null"
NoSelection == ""

\* what <input type="number" required> without min gives to setAmount:
\* a negative number or a positive one
AmountInputs == {0 - 1} \cup 1..MaxAmount

\* a partners state whose map puts the amount in place of the total
addToTotal_replaced(ps, id, amount) ==
  IF id \in DOMAIN ps THEN [ps EXCEPT ![id] = amount] ELSE ps

\* prev.map(partner => partner.id === id
\*   ? {...partner, total: Number(partner.total) + amount} : partner)
addToTotal(ps, id, amount) ==
  IF id \in DOMAIN ps THEN [ps EXCEPT ![id] = @ + amount] ELSE ps

\* prev.filter(t => t.id !== id)
withoutId(txs, id) == LET Keep(t) == t.id # id IN SelectSeq(txs, Keep)

\* prev.map(t => t.id === updated.id ? updated : t)
withUpdated(txs, updated) ==
  [i \in DOMAIN txs |-> IF txs[i].id = updated.id THEN updated ELSE txs[i]]

\* transactions.find(t => t.id === id), as the set of its positions
findById(txs, id) == {i \in DOMAIN txs : txs[i].id = id}

\* a signed-in user with two partners and no transaction, loaded
InitStore ==
  /\ transactions = <<>>
  /\ partners = [p \in PartnerIds |-> 0]
  /\ db = [transactions |-> <<>>, partners |-> [p \in PartnerIds |-> 0],
            nextId |-> 1]
  /\ outcome = [op |-> "loadData", ok |-> TRUE]
  /\ today = getTime(Now) + MsPerDay \div 2
  /\ rendered = FALSE
  /\ runway = NotRendered
  /\ futureNeeds = NotRendered
  /\ timeZone = IndiaStandardTime
  /\ activeTab = "all"
  /\ mounted = FALSE
  /\ memo = NotMounted
  /\ calls = NoCalls
  /\ totals = NoTotals

\* handleSubmit with the form on the tab `type`: the row is inserted and
\* appended to the transactions state, and a credit is added to its
\* partner's total in the partners state; when the insert fails the
\* partners are read again from the store
handleSubmit(type, amount, selectedPartnerId) ==
  LET newTransaction ==
        [id |-> db.nextId, type |-> type, amount |-> amount, date |-> Now,
         payment_type |-> "White",
         partner_id |-> IF type = "credit" THEN selectedPartnerId ELSE null]
      \* partner_id is a uuid that references partners
      insertable == \/ newTransaction.partner_id = null
                    \/ newTransaction.partner_id \in DOMAIN db.partners
  IN  \/ /\ insertable
         /\ db.nextId <= MaxIds
         /\ db' = [db EXCEPT !.transactions = Append(@, newTransaction),
                              !.nextId = @ + 1]
         /\ transactions' = Append(transactions, newTransaction)
         /\ partners' = IF type = "credit" /\ selectedPartnerId # NoSelection
                        THEN addToTotal(partners, selectedPartnerId, amount)
                        ELSE partners
         /\ outcome' = [op |-> "handleSubmit", ok |-> TRUE]
      \/ /\ \E refreshed \in BOOLEAN :
              partners' = IF refreshed THEN db.partners ELSE partners
         /\ outcome' = [op |-> "handleSubmit", ok |-> FALSE]
         /\ UNCHANGED <<transactions, db>>

\* handleEditSubmit for the transaction `id` of the transactions state with
\* the amount field changed
handleEditSubmit(id, amount) ==
  /\ findById(transactions, id) # {}
  /\ LET originalTransaction ==
           transactions[CHOOSE i \in findById(transactions, id) : TRUE]
         editTransaction == [originalTransaction EXCEPT !.amount = amount]
     IN  \/ /\ findById(db.transactions, id) # {}
            /\ LET row == db.transactions[CHOOSE i \in findById(db.transactions, id) : TRUE]
                   updatedTransaction ==
                     [row EXCEPT !.amount = editTransaction.amount,
                                 !.type = editTransaction.type,
                                 !.partner_id = editTransaction.partner_id,
                                 !.date = editTransaction.date,
                                 !.payment_type = editTransaction.payment_type]
               IN  /\ db' = [db EXCEPT !.transactions = withUpdated(@, updatedTransaction)]
                   /\ transactions' = withUpdated(transactions, updatedTransaction)
            /\ partners' =
                 IF originalTransaction.type = "credit"
                    /\ originalTransaction.partner_id \notin {null, NoSelection}
                 THEN addToTotal(partners, originalTransaction.partner_id,
                                 editTransaction.amount - originalTransaction.amount)
                 ELSE partners
            /\ outcome' = [op |-> "handleEditSubmit", ok |-> TRUE]
         \/ /\ outcome' = [op |-> "handleEditSubmit", ok |-> FALSE]
            /\ UNCHANGED <<transactions, partners, db>>

\* handleDeleteConfirm for the transaction `id` of the transactions state
handleDeleteConfirm(id) ==
  /\ findById(transactions, id) # {}
  /\ LET transaction == transactions[CHOOSE i \in findById(transactions, id) : TRUE]
     IN  \/ /\ db' = [db EXCEPT !.transactions = withoutId(@, id)]
            /\ transactions' = withoutId(transactions, id)
            /\ partners' =
                 IF transaction.type = "credit"
                    /\ transaction.partner_id \notin {null, NoSelection}
                 THEN addToTotal(partners, transaction.partner_id,
                                 0 - transaction.amount)
                 ELSE partners
            /\ outcome' = [op |-> "handleDeleteConfirm", ok |-> TRUE]
         \/ /\ outcome' = [op |-> "handleDeleteConfirm", ok |-> FALSE]
            /\ UNCHANGED <<transactions, partners, db>>

\* loadData: the partners, then the transactions, are read from the store;
\* an error ends it where it occurs
loadData ==
  \/ /\ partners' = db.partners
     /\ transactions' = db.transactions
     /\ outcome' = [op |-> "loadData", ok |-> TRUE]
     /\ UNCHANGED db
  \/ /\ \E partnersLoaded \in BOOLEAN :
          partners' = IF partnersLoaded THEN db.partners ELSE partners
     /\ outcome' = [op |-> "loadData", ok |-> FALSE]
     /\ UNCHANGED <<transactions, db>>

\* the contents of a backup file: nothing, or one partner with one credit
Backups ==
  {[partners |-> <<>>, transactions |-> <<>>],
   [partners |-> [p \in {"A"} |-> MaxAmount],
    transactions |-> <<[type |-> "credit", amount |-> MaxAmount, date |-> Now,
                        payment_type |-> "White", partner_id |-> "A"]>>]}

RestoreSteps ==
  {"deleteTransactions", "deletePartners", "insertPartners", "insertTransactions"}

\* the rows of a backup as the store inserts them, numbered from nextId
inserted(rows, nextId) ==
  [i \in DOMAIN rows |->
     [id |-> nextId + i - 1, type |-> rows[i].type, amount |-> rows[i].amount,
      date |-> rows[i].date, payment_type |-> rows[i].payment_type,
      partner_id |-> rows[i].partner_id]]

\* the store after the steps of handleRestore that precede `failed`
storeBefore(failed, data) ==
  CASE failed = "deleteTransactions" -> db
    [] failed = "deletePartners" -> [db EXCEPT !.transactions = <<>>]
    [] failed = "insertPartners" ->
         [db EXCEPT !.transactions = <<>>, !.partners = <<>>]
    [] failed = "insertTransactions" ->
         [db EXCEPT !.transactions = <<>>, !.partners = data.partners]

\* handleRestore(data): the user's rows are deleted, the partners and the
\* transactions of the backup inserted, and the data loaded again; an error
\* of a request is thrown to the caller
handleRestore(data) ==
  \/ /\ db.nextId + Len(data.transactions) - 1 <= MaxIds
     /\ db' = [transactions |-> inserted(data.transactions, db.nextId),
               partners |-> data.partners,
               nextId |-> db.nextId + Len(data.transactions)]
     /\ \E loaded \in BOOLEAN :
          /\ partners' = IF loaded THEN db'.partners ELSE partners
          /\ transactions' = IF loaded THEN db'.transactions ELSE transactions
     /\ outcome' = [op |-> "handleRestore", ok |-> TRUE]
  \/ /\ \E failed \in RestoreSteps : db' = storeBefore(failed, data)
     /\ outcome' = [op |-> "handleRestore", ok |-> FALSE]
     /\ UNCHANGED <<transactions, partners>>

projectionVars ==
  <<today, rendered, runway, futureNeeds, timeZone, activeTab, mounted, memo, calls,
    totals>>

\* adding, editing and deleting transactions, and reloading
NextStore ==
  \/ \E amount \in AmountInputs, selectedPartnerId \in PartnerIds \cup {NoSelection} :
        handleSubmit("credit", amount, selectedPartnerId) /\ UNCHANGED projectionVars
  \/ \E amount \in AmountInputs :
        handleSubmit("debit", amount, NoSelection) /\ UNCHANGED projectionVars
  \/ \E id \in 1..MaxIds, amount \in AmountInputs :
        handleEditSubmit(id, amount) /\ UNCHANGED projectionVars
  \/ \E id \in 1..MaxIds :
        handleDeleteConfirm(id) /\ UNCHANGED projectionVars
  \/ loadData /\ UNCHANGED projectionVars

SpecStore == InitStore /\ [][NextStore]_vars

\* adding transactions, restoring a backup and reloading
NextRestore ==
  \/ \E amount \in AmountInputs, selectedPartnerId \in PartnerIds \cup {NoSelection} :
        handleSubmit("credit", amount, selectedPartnerId) /\ UNCHANGED projectionVars
  \/ \E amount \in AmountInputs :
        handleSubmit("debit", amount, NoSelection) /\ UNCHANGED projectionVars
  \/ \E data \in Backups : handleRestore(data) /\ UNCHANGED projectionVars
  \/ loadData /\ UNCHANGED projectionVars

SpecRestore == InitStore /\ [][NextRestore]_vars

----------------------------------------------------------------------------
(* The day-walk the projections are specified against: for a ledger and a  *)
(* channel filter, the cumulative balance after all transactions of a day. *)

PassesFilter(t, f) == f = "none" \/ t.payment_type = f

FilteredIdx(txs, f) == {i \in DOMAIN txs : PassesFilter(txs[i], f)}

Signed(t) == IF t.type = "credit" THEN t.amount ELSE 0 - t.amount

RECURSIVE SumIdx(_, _)
SumIdx(txs, I) ==
  IF I = {} THEN 0
  ELSE LET i == CHOOSE x \in I : TRUE IN Signed(txs[i]) + SumIdx(txs, I \ {i})

BalanceAfterDay(txs, f, d) ==
  SumIdx(txs, {i \in FilteredIdx(txs, f) : txs[i].date <= d})

ActiveDates(txs, f) == {txs[i].date : i \in FilteredIdx(txs, f)}

NegativeDates(txs, f) == {d \in ActiveDates(txs, f) : BalanceAfterDay(txs, f, d) < 0}

FirstOf(S) == CHOOSE d \in S : \A e \in S : d <= e

Magnitude(x) == IF x < 0 THEN 0 - x ELSE x

DebitIdx(txs, f) == {i \in FilteredIdx(txs, f) : txs[i].type = "debit"}

\* the ledgers that differ from txs only in the relative order of
\* transactions that share a date
SameDateReorderings(txs) ==
  LET n == Len(txs)
      perms == {p \in [1..n -> 1..n] :
                  /\ \A i, j \in 1..n : p[i] = p[j] => i = j
                  /\ \A i \in 1..n : txs[p[i]].date = txs[i].date}
  IN  {[i \in 1..n |-> txs[p[i]]] : p \in perms}

Entries(f) == {futureNeeds[f][k] : k \in DOMAIN futureNeeds[f]}

----------------------------------------------------------------------------
(* Claims *)

\* C1: for every ledger and filter, the exhaustion date reported by
\* calculateRunway is the first date whose balance after ALL of that date's
\* filtered transactions is negative, and the amount short is the absolute
\* value of that post-day balance.
C1_ExhaustionIsFirstNegativeDay ==
  rendered =>
    \Af \in Filters :
      NegativeDates(transactions, f) # {} =>
        LET d == FirstOf(NegativeDates(transactions, f))
        IN  /\ runway[f].isRunwayExhausted
            /\ ~runway[f].isInfinite
            /\ runway[f].lastSustainableDate = d
            /\ runway[f].amountNeeded = Magnitude(BalanceAfterDay(transactions, f, d))

\* C2: the result of calculateRunway does not depend on the relative input
\* order of transactions that share a date.
C2_RunwayIgnoresSameDateOrder ==
  rendered =>
    \Af \in Filters : \A txs \in SameDateReorderings(transactions) :
      calculateRunway(txs, f, today) = runway[f]

\* C3: when the runway is bounded, calculateFutureNeeds has an entry
\* {date, |post-day balance|} for every date after the exhaustion date that
\* has filtered transactions and a negative post-day balance, whether the
\* date's last transaction is a credit or a debit.
C3_EveryNegativeLaterDayHasEntry ==
  rendered =>
    \Af \in Filters :
      runway[f].isRunwayExhausted =>
        \A d \in NegativeDates(transactions, f) :
          d > runway[f].lastSustainableDate =>
            [date |-> d,
             amountNeeded |-> Magnitude(BalanceAfterDay(transactions, f, d))]
              \in Entries(f)

\* the ledgers obtained from txs by removing one transaction that is not of
\* channel pt (adding one is the same step taken backwards, changing one is
\* a removal followed by an addition)
OtherChannelRemovals(txs, pt) ==
  {SubSeq(txs, 1, i - 1) \o SubSeq(txs, i + 1, Len(txs)) :
     i \in {j \in DOMAIN txs : txs[j].payment_type # pt}}

RECURSIVE OnlyChannel(_, _)
OnlyChannel(txs, pt) ==
  IF txs = <<>> THEN <<>>
  ELSE IF Head(txs).payment_type = pt
       THEN <<Head(txs)>> \o OnlyChannel(Tail(txs), pt)
       ELSE OnlyChannel(Tail(txs), pt)

\* C4: calculateRunway('White') depends only on the White transactions, and
\* calculateRunway('Black') only on the Black ones: a ledger with or without
\* any transaction of the other channel has the same result, and the result
\* is that of the channel's transactions taken alone.
C4_ChannelIndependence ==
  rendered =>
    \Apt \in PaymentTypes :
      /\ \A txs \in OtherChannelRemovals(transactions, pt) :
           calculateRunway(txs, pt, today) = runway[pt]
      /\ calculateRunway(OnlyChannel(transactions, pt), "none", today) = runway[pt]

C4_Witness ==
  /\ rendered
  /\ FilteredIdx(transactions, "White") # {}
  /\ FilteredIdx(transactions, "Black") # {}
  /\ runway["White"].isRunwayExhausted
  /\ ~runway["none"].isRunwayExhausted
  /\ ~runway["Black"].isRunwayExhausted

\* C5: calculateRunway returns the unbounded result (isInfinite,
\* not isRunwayExhausted, amountNeeded 0) whenever the filtered ledger is
\* empty or holds no debit.
C5_NoDebitIsUnbounded ==
  rendered =>
    \Af \in Filters :
      DebitIdx(transactions, f) = {} =>
        /\ runway[f].isInfinite
        /\ ~runway[f].isRunwayExhausted
        /\ runway[f].amountNeeded = 0

C5_Witness ==
  /\ rendered
  /\ \E f, g \in Filters :
       /\ FilteredIdx(transactions, f) = {}
       /\ FilteredIdx(transactions, g) # {}
       /\ DebitIdx(transactions, g) = {}
       /\ runway[f].isInfinite
       /\ runway[g].isInfinite

\* C6: a filtered ledger that holds debits but whose post-day balance is
\* non-negative on every date gets the unbounded result.
C6_NeverNegativeDayIsUnbounded ==
  rendered =>
    \Af \in Filters :
      (DebitIdx(transactions, f) # {} /\ NegativeDates(transactions, f) = {}) =>
        /\ runway[f].isInfinite
        /\ runway[f].amountNeeded = 0

\* C7: every entry of calculateFutureNeeds is dated strictly after the
\* exhaustion date calculateRunway reports for the same filter; the
\* exhaustion day itself is never an entry.
C7_EntriesAfterExhaustionDate ==
  rendered =>
    \Af \in Filters : \A e \in Entries(f) :
      /\ runway[f].isRunwayExhausted
      /\ e.date > runway[f].lastSustainableDate

C7_Witness ==
  /\ rendered
  /\ runway["none"].isRunwayExhausted
  /\ futureNeeds["none"] # <<>>
  /\ Cardinality({i \in FilteredIdx(transactions, "none") :
                   transactions[i].date = runway["none"].lastSustainableDate}) >= 2

\* C8: calculateFutureNeeds emits no entry for a date whose post-day balance
\* is non-negative, and every entry's amountNeeded is the absolute value of
\* the balance after all of that date's filtered transactions.
C8_EntriesCarryPostDayShortfall ==
  rendered =>
    \Af \in Filters : \A e \in Entries(f) :
      /\ e.date \in ActiveDates(transactions, f)
      /\ BalanceAfterDay(transactions, f, e.date) < 0
      /\ e.amountNeeded = Magnitude(BalanceAfterDay(transactions, f, e.date))

C8_Witness ==
  /\ rendered
  /\ \E e \in Entries("none") :
       /\ Cardinality({i \in FilteredIdx(transactions, "none") :
                        transactions[i].date = e.date}) >= 2
       /\ \E i \in FilteredIdx(transactions, "none") :
            transactions[i].date = e.date /\ transactions[i].type = "credit"

\* C9: the list of calculateFutureNeeds does not depend on the relative
\* input order of transactions that share a date.
C9_NeedsIgnoreSameDateOrder ==
  rendered =>
    \Af \in Filters : \A txs \in SameDateReorderings(transactions) :
      calculateFutureNeeds(txs, f, today) = futureNeeds[f]

\* C10: calculateFutureNeeds returns the empty list whenever calculateRunway
\* for the same ledger and filter is unbounded.
C10_UnboundedHasNoNeeds ==
  rendered =>
    \Af \in Filters :
      ~runway[f].isRunwayExhausted => futureNeeds[f] = <<>>

C10_Witness ==
  /\ rendered
  /\ \E f, g \in Filters :
       /\ ~runway[f].isRunwayExhausted
       /\ DebitIdx(transactions, f) # {}
       /\ futureNeeds[f] = <<>>
       /\ futureNeeds[g] # <<>>

\* C11: the list of calculateFutureNeeds holds at most one entry per distinct
\* date, however many transactions share that date.
C11_OneEntryPerDate ==
  rendered =>
    \A f \in Filters : \A j, k \in DOMAIN futureNeeds[f] :
      futureNeeds[f][j].date = futureNeeds[f][k].date => j = k

C11_Witness ==
  /\ rendered
  /\ \E k \in DOMAIN futureNeeds["none"] :
       Cardinality({i \in DebitIdx(transactions, "none") :
                      transactions[i].date = futureNeeds["none"][k].date}) >= 2

\* C12: the entries of calculateFutureNeeds are in strictly ascending date
\* order, whatever the order of the ledger.
C12_EntriesAscendByDate ==
  rendered =>
    \A f \in Filters : \A k \in 1..(Len(futureNeeds[f]) - 1) :
      futureNeeds[f][k].date < futureNeeds[f][k + 1].date

C12_Witness ==
  /\ rendered
  /\ Len(futureNeeds["none"]) >= 2
  /\ \E i, j \in DOMAIN transactions :
       /\ i < j
       /\ transactions[i].date > transactions[j].date
       /\ transactions[j].date > runway["none"].lastSustainableDate

----------------------------------------------------------------------------
(* The daily series the BalanceGraph is specified against *)

PassesTab(t, tab) ==
  \/ tab = "all"
  \/ tab = "white" /\ t.payment_type = "White"
  \/ tab = "black" /\ t.payment_type = "Black"

TabIdx(txs, tab) == {i \in DOMAIN txs : PassesTab(txs[i], tab)}

TabDates(txs, tab) == {txs[i].date : i \in TabIdx(txs, tab)}

LastOf(S) == CHOOSE d \in S : \A e \in S : d >= e

\* the cumulative balance of the tab's transactions dated up to day d
TabBalanceAfterDay(txs, tab, d) ==
  SumIdx(txs, {i \in TabIdx(txs, tab) : txs[i].date <= d})

\* the points of the series, in the order of memo.dates
Point(k) == memo.dailyBalances[memo.dates[k]]

\* C13: the daily series holds exactly one point for every calendar day from
\* the earliest to the latest transaction date of the filtered ledger,
\* inclusive and ascending, days without transactions included.
C13_OnePointPerCalendarDay ==
  mounted =>
    LET D == TabDates(transactions, activeTab)
    IN  D # {} =>
          /\ Len(memo.dates) = LastOf(D) - FirstOf(D) + 1
          /\ \A k \in DOMAIN memo.dates : memo.dates[k] = FirstOf(D) + k - 1
          /\ DOMAIN memo.dailyBalances = FirstOf(D)..LastOf(D)

\* a runtime whose zone has no transition: local days are UTC days
NoTransition == timeZone.before = timeZone.after

\* the property of C13 in a zone without transition
C13_WithoutTransition == NoTransition => C13_OnePointPerCalendarDay

\* C14: a day without filtered transactions carries the previous day's
\* balance with hasTransaction = false; a day with filtered transactions has
\* the cumulative balance after all of that day's transactions and
\* hasTransaction = true, also when the day's net change is zero.
C14_CarryForwardAndActivity ==
  mounted =>
    \A k \in DOMAIN memo.dates :
      LET d == memo.dates[k]
          active == d \in TabDates(transactions, activeTab)
      IN  /\ Point(k).hasTransaction = active
          /\ active =>
                Point(k).balance = TabBalanceAfterDay(transactions, activeTab, d)
          /\ ~active =>
                /\ (d - 1) \in DOMAIN memo.dailyBalances
                /\ Point(k).balance = memo.dailyBalances[d - 1].balance

C14_WithoutTransition == NoTransition => C14_CarryForwardAndActivity

\* the scenario of C14 in whole units: credit 1 on day 1 and debit 1 on day
\* MaxDate + 2 give (1, active), (1, inactive) ..., (0, active)
C14_Scenario ==
  (/\ mounted
   /\ NoTransition
   /\ activeTab = "all"
   /\ Len(transactions) = 2
   /\ transactions[1].type = "credit" /\ transactions[1].date = 1
   /\ transactions[2].type = "debit" /\ transactions[2].date = MaxDate + 2
   /\ transactions[1].amount = transactions[2].amount)
  => /\ Len(memo.dates) = MaxDate + 2
     /\ \A k \in DOMAIN memo.dates :
          /\ memo.dates[k] = k
          /\ Point(k).hasTransaction = (k \in {1, MaxDate + 2})
          /\ Point(k).balance =
               IF k = MaxDate + 2 THEN 0 ELSE transactions[1].amount

\* C15: the balance of the last point of the daily series is the sum of the
\* credits minus the sum of the debits of the filtered ledger, the walk
\* starting from 0; for the tab "all" this is totalBalance of App.
C15_LastPointIsTotal ==
  mounted =>
    (TabIdx(transactions, activeTab) # {} =>
       /\ memo.dates # <<>>
       /\ Point(Len(memo.dates)).balance =
            SumIdx(transactions, TabIdx(transactions, activeTab))
       /\ activeTab = "all" =>
            Point(Len(memo.dates)).balance = totalBalance(transactions))

C15_WithoutTransition == NoTransition => C15_LastPointIsTotal

\* the entries of the day-walk: the points of the days with transactions
WalkEntries == {k \in DOMAIN memo.dates : Point(k).hasTransaction}

\* C16: the day-walk holds exactly one entry per distinct transaction date,
\* and its balance is the cumulative balance after all transactions of that
\* date; same-date transactions give no intermediate entry.
C16_OneWalkEntryPerDate ==
  mounted =>
    /\ \A d \in TabDates(transactions, activeTab) :
         /\ Cardinality({k \in WalkEntries : memo.dates[k] = d}) = 1
         /\ \A k \in WalkEntries :
              memo.dates[k] = d =>
                Point(k).balance = TabBalanceAfterDay(transactions, activeTab, d)
    /\ Cardinality(WalkEntries) = Cardinality(TabDates(transactions, activeTab))

C16_WithoutTransition == NoTransition => C16_OneWalkEntryPerDate

Balances == {memo.dailyBalances[d].balance : d \in DOMAIN memo.dailyBalances}

\* C17: minBalance <= 0 <= maxBalance, every point's balance lies between
\* minBalance and maxBalance, and each of the two is 0 or the balance of
\* some point.
C17_ExtremaBoundSeriesAndZero ==
  mounted =>
    /\ memo.minBalance <= 0
    /\ 0 <= memo.maxBalance
    /\ \A k \in DOMAIN memo.dates :
         /\ memo.minBalance <= Point(k).balance
         /\ Point(k).balance <= memo.maxBalance
    /\ memo.minBalance \in Balances \cup {0}
    /\ memo.maxBalance \in Balances \cup {0}

C17_Witness ==
  /\ mounted
  /\ Len(memo.dates) >= 2
  /\ memo.minBalance < 0
  /\ memo.maxBalance = 0
  /\ 0 \notin Balances

\* C18: a filtered ledger without any date gives a series of length 0, one
\* with a single distinct date a series of length 1 (that date), and the
\* builder returns a value in both cases.
C18_DegenerateSeries ==
  mounted =>
    LET D == TabDates(transactions, activeTab)
    IN  /\ D = {} =>
              /\ memo.dates = <<>>
              /\ DOMAIN memo.dailyBalances = {}
              /\ memo.minBalance = 0 /\ memo.maxBalance = 0
        /\ Cardinality(D) = 1 =>
              /\ Len(memo.dates) = 1
              /\ memo.dates[1] \in D
              /\ DOMAIN memo.dailyBalances = D

C18_Witness ==
  /\ mounted
  /\ TabDates(transactions, activeTab) = {}
  /\ Cardinality(TabDates(transactions, "all")) = 1
  /\ memo.dates = <<>>
  /\ \E tab \in Tabs : Len(useMemo(transactions, tab, timeZone).dates) = 1

----------------------------------------------------------------------------
(* The normalised ledger *)

\* the place of row i among the rows I of txs: after the rows of an earlier
\* date and after the earlier rows of its own date
Place(txs, I, i) ==
  1 + Cardinality({j \in I : \/ txs[j].date < txs[i].date
                             \/ txs[j].date = txs[i].date /\ j < i})

\* out holds exactly the rows I of txs, each once, ascending by date, rows
\* of one date in the order of txs
IsNormalised(out, txs, I) ==
  /\ Len(out) = Cardinality(I)
  /\ \A i \in I : out[Place(txs, I, i)] = txs[i]
  /\ \A k \in 1..(Len(out) - 1) : out[k].date <= out[k + 1].date

\* C19: the channel filter followed by the date sort, in calculateRunway and
\* in the BalanceGraph, outputs exactly the transactions that pass the
\* filter, each once, in ascending date order, same-date transactions in
\* their input order.
C19_NormalisedLedger ==
  rendered =>
    /\ \A f \in Filters :
         IsNormalised(sortedTransactions(transactions, f), transactions,
                      FilteredIdx(transactions, f))
    /\ \A tab \in Tabs :
         IsNormalised(graphTransactions(transactions, tab), transactions,
                      TabIdx(transactions, tab))

C19_Witness ==
  /\ rendered
  /\ Len(transactions) = 3
  /\ transactions[1].date > transactions[2].date
  /\ transactions[3].date = transactions[1].date
  /\ transactions[3] # transactions[1]
  /\ transactions[2].payment_type # transactions[1].payment_type
  /\ transactions[3].payment_type = transactions[1].payment_type
  /\ sortedTransactions(transactions, "none")
       = <<transactions[2], transactions[1], transactions[3]>>
  /\ sortedTransactions(transactions, transactions[1].payment_type)
       = <<transactions[1], transactions[3]>>

IsSortedByDate(txs) == \A k \in 1..(Len(txs) - 1) : txs[k].date <= txs[k + 1].date

\* C20: the date sort without filter returns a ledger that is already sorted
\* by date unchanged, in content and order; so normalising twice equals
\* normalising once.
C20_SortedLedgerIsFixedPoint ==
  rendered =>
    /\ IsSortedByDate(transactions) =>
         sortedTransactions(transactions, "none") = transactions
    /\ sortedTransactions(sortedTransactions(transactions, "none"), "none")
         = sortedTransactions(transactions, "none")

C20_Witness ==
  /\ rendered
  /\ Len(transactions) = 3
  /\ IsSortedByDate(transactions)
  /\ transactions[1].date < transactions[2].date
  /\ transactions[2].date = transactions[3].date
  /\ transactions[2] # transactions[3]
  /\ sortedTransactions(transactions, "none") = transactions

----------------------------------------------------------------------------
(* Repeated calls *)

----------------------------------------------------------------------------
(* The day count *)

\* the current date: new Date().toISOString().split('T')[0], as App takes it
\* for its forms
CurrentDate == toISODate(today)

\* C23: when the runway is bounded, days is the whole number of days from
\* the current date to the exhaustion date (exhaustion date minus today), and
\* it is negative exactly when the exhaustion date lies before today.
C23_DaysToExhaustion ==
  rendered =>
    \A f \in Filters :
      runway[f].isRunwayExhausted =>
        /\ runway[f].days = runway[f].lastSustainableDate - CurrentDate
        /\ (runway[f].days < 0) <=> (runway[f].lastSustainableDate < CurrentDate)

C23_Witness ==
  /\ rendered
  /\ runway["none"].isRunwayExhausted
  /\ runway["none"].days < 0
  /\ today # getTime(CurrentDate)
  /\ runway["none"].lastSustainableDate < CurrentDate

----------------------------------------------------------------------------
(* The shape of the results *)

\* C25: every result of calculateRunway has isInfinite = ~isRunwayExhausted;
\* an unbounded one has amountNeeded 0, days Infinity and the far-future
\* date; a bounded one has amountNeeded > 0 and as exhaustion date the date
\* of a debit of the filtered ledger.
C25_RunwayResultShape ==
  rendered =>
    \A f \in Filters :
      /\ runway[f].isInfinite = ~runway[f].isRunwayExhausted
      /\ runway[f].isInfinite =>
           /\ runway[f].amountNeeded = 0
           /\ runway[f].days = Infinity
           /\ runway[f].lastSustainableDate = FarFutureDate
      /\ ~runway[f].isInfinite =>
           /\ runway[f].amountNeeded > 0
           /\ \E i \in DebitIdx(transactions, f) :
                transactions[i].date = runway[f].lastSustainableDate

\* one filter is bounded; another has debits, one of which brings its
\* balance to zero, and is unbounded
C25_Witness ==
  /\ rendered
  /\ \E f, g \in Filters :
       /\ ~runway[f].isInfinite
       /\ runway[g].isInfinite
       /\ \E i \in DebitIdx(transactions, g) :
            BalanceAfterDay(transactions, g, transactions[i].date) = 0

\* C26: every entry of calculateFutureNeeds has amountNeeded > 0 and the date
\* of a transaction of the filtered ledger; a day without transaction has no
\* entry, even when the balance is negative on it.
C26_EntriesOnTransactionDates ==
  rendered =>
    \A f \in Filters : \A k \in DOMAIN futureNeeds[f] :
      /\ futureNeeds[f][k].amountNeeded > 0
      /\ futureNeeds[f][k].date \in ActiveDates(transactions, f)

\* the runway is exhausted, the next day has no transaction and a negative
\* balance, and a later day has an entry
C26_Witness ==
  /\ rendered
  /\ runway["none"].isRunwayExhausted
  /\ (runway["none"].lastSustainableDate + 1) \notin ActiveDates(transactions, "none")
  /\ BalanceAfterDay(transactions, "none", runway["none"].lastSustainableDate + 1) < 0
  /\ \E k \in DOMAIN futureNeeds["none"] :
       futureNeeds["none"][k].date > runway["none"].lastSustainableDate + 1

----------------------------------------------------------------------------
(* The ledger and the partner totals under the handlers *)

\* C24: no transaction with a negative amount is in the ledger the
\* projections see: handleSubmit and handleEditSubmit with a negative amount
\* are rejected and leave the transactions as they were.
C24_NoNegativeAmount ==
  \A i \in DOMAIN transactions : transactions[i].amount >= 0

LedgerOps == {"handleSubmit", "handleEditSubmit", "handleDeleteConfirm"}

RECURSIVE linkedCredits(_, _)
\* the sum of the amounts of the credits of txs linked to partner p
linkedCredits(txs, p) ==
  IF txs = <<>> THEN 0
  ELSE (IF Head(txs).type = "credit" /\ Head(txs).partner_id = p
        THEN Head(txs).amount ELSE 0) + linkedCredits(Tail(txs), p)

\* every partner's total in memory is the sum of its linked credits
TotalsMatchCredits ==
  \A p \in DOMAIN partners : partners[p] = linkedCredits(transactions, p)

\* C28: a successful handleSubmit, handleEditSubmit or handleDeleteConfirm
\* taken in a state where every partner's in-memory total equals the sum of
\* its linked credits leads to a state where that is so again; hence it is
\* so after any sequence of them from a loaded state where it is so.
C28_TotalsFollowCredits ==
  [][(TotalsMatchCredits /\ outcome'.ok /\ outcome'.op \in LedgerOps)
       => TotalsMatchCredits']_vars

\* a credit of a partner that has another credit has been deleted
C28_Witness ==
  /\ outcome = [op |-> "handleDeleteConfirm", ok |-> TRUE]
  /\ TotalsMatchCredits
  /\ Len(transactions) = 1
  /\ transactions[1].id = MaxIds
  /\ \E p \in DOMAIN partners :
       partners[p] = MaxAmount /\ transactions[1].partner_id = p

\* C29: loadData after a successful add, edit or delete of a transaction
\* leaves every partner's total as it was in memory: the store holds the
\* totals the handlers show.
C29_ReloadKeepsTotals ==
  [][(outcome.ok /\ outcome.op \in LedgerOps
      /\ outcome' = [op |-> "loadData", ok |-> TRUE])
       => partners' = partners]_vars

\* C30: a handleRestore that fails leaves the transactions and the partners
\* of the store as they were.
C30_FailedRestoreKeepsStore ==
  [][outcome' = [op |-> "handleRestore", ok |-> FALSE]
       => (db'.transactions = db.transactions /\ db'.partners = db.partners)]_vars

====
